---- MODULE Spec2Model ----
(***************************************************************************)
(* Model of the analytics backend: the event recorder (trackSession,       *)
(* trackPageView, trackPing, trackClick, trackGoal), the daily rollup      *)
(* (DailyStats) and the range-resolving readers of src/src/lib/db.ts and   *)
(* the stats / reports routes.                                             *)
(*                                                                         *)
(* Time is counted in ticks, TicksPerDay ticks to a UTC day; tick 0 is     *)
(* midnight UTC of day 0 and the process runs with TZ = UTC.  A Date is an *)
(* integer number of ticks, "Date | undefined" is a record [ok, t].        *)
(* Every await of a storage call is one step of the calling handler, so    *)
(* handlers of different requests interleave at their awaits.              *)
(***************************************************************************)
EXTENDS Integers, FiniteSets, Sequences, TLC

\* ------------------------------------------------------------------ bounds
NumCalls == 2
MaxTime == 3
MaxFailures == 1

\* Ticks of the clock in one UTC day (the code's 86 400 000 ms, scaled).
TicksPerDay == 2

CallIds == 1..NumCalls
Times == 0..MaxTime
\* The dates (midnights UTC) of the days the model's clock and payloads reach.
Dates == {(t \div TicksPerDay) * TicksPerDay : t \in Times}

\* ------------------------------------------------------------------ values
Undefined == [ok |-> FALSE, t |-> 0]
Some(t) == [ok |-> TRUE, t |-> t]

\* A string sent by a client where a timestamp is expected: absent, not a
\* timestamp, a date-only string (YYYY-MM-DD) or a full ISO timestamp.
AbsentStr == [k |-> "absent", d |-> 0, tod |-> 0]
GarbageStr == [k |-> "garbage", d |-> 0, tod |-> 0]
DateStr(d) == [k |-> "date", d |-> d, tod |-> 0]
DateTimeStr(d, tod) == [k |-> "datetime", d |-> d, tod |-> tod]

\* new Date(String(value)): a date-only string is midnight UTC of that day.
asDate(value) ==
    IF value.k = "date" THEN Some(value.d * TicksPerDay)
    ELSE IF value.k = "datetime" THEN Some(value.d * TicksPerDay + value.tod)
    ELSE Undefined

\* a ?? b on Date | undefined
Coalesce(a, b) == IF a.ok THEN a ELSE b

toUtcDateOnly(value) == (value \div TicksPerDay) * TicksPerDay

Metrics == {"sessions", "pageViews", "pings", "clicks", "goals"}
Ops == {"session", "view", "ping", "click", "goal"}

\* The rollup metric and the event table of a track operation.
MetricOf(op) ==
    CASE op = "session" -> "sessions"
      [] op = "view" -> "pageViews"
      [] op = "ping" -> "pings"
      [] op = "click" -> "clicks"
      [] op = "goal" -> "goals"

\* ------------------------------------------------------------------ payloads
\* Session ids: 1.. are ids sent by clients, 0 is "no id" (null), and the
\* id randomUUID() generates in call c is 0 - c (fresh, never sent by a client).
NoId == 0
ClientIds == {1}
randomUUID(c) == 0 - c

PayloadStamps == {AbsentStr, DateTimeStr(1, 1)}
ClickKinds == {"social", "link-card", "setup"}

\* A number sent by a client (payload.duration): NoNumber when the field is
\* absent, else the number.  asNumber(value) is [ok, n], ok = FALSE for undefined.
NoNumber == 0 - 1
asNumber(value) ==
    IF value = NoNumber THEN [ok |-> FALSE, n |-> 0] ELSE [ok |-> TRUE, n |-> value]

\* The payloads a client sends to a track operation: the fields the recorder
\* reads, with startTime, lastPingTime and duration left out by the clients
\* modelled here.
Payloads(op) ==
    [sessionId : ClientIds \cup {NoId},
     startTime : {AbsentStr},
     lastPingTime : {AbsentStr},
     timestamp : PayloadStamps,
     duration : {NoNumber},
     kind : IF op = "click" THEN ClickKinds ELSE {""}]

asString(id) == id # NoId

\* The label and url every click payload of the model carries in its metadata.
LinkLabel == "Twitter"
LinkUrl == "https://x.com"

resolveSessionId(payload, c) ==
    IF asString(payload.sessionId) THEN payload.sessionId ELSE randomUUID(c)

\* ------------------------------------------------------------------ state
VARIABLES
    now,         \* the clock read by new Date()
    sessions,    \* table sessions: id -> row
    events,      \* tables page_views, pings, clicks, goals: inserting call -> row
    dailyStats,  \* table daily_stats: date -> the five counters
    calls,       \* the track calls: position and locals of each
    failures,    \* storage failures so far
    req,         \* the read request being served, then its response
    adminSessions,  \* table admin_sessions: the ids (tokens) of its rows
    authLog      \* the responses of the auth routes, in the order they were sent

vars == <<now, sessions, events, dailyStats, calls, failures, req, adminSessions, authLog>>

IdleCall ==
    [pc |-> "idle", op |-> "", payload |-> [sessionId |-> NoId, startTime |-> AbsentStr, lastPingTime |-> AbsentStr,
                 timestamp |-> AbsentStr, duration |-> NoNumber, kind |-> ""],
     sessionId |-> NoId, created |-> FALSE, startTime |-> 0, lastPingTime |-> 0,
     duration |-> 0, timestamp |-> 0, err |-> "", status |-> 0]

\* StatsRangeInput: period is "" when absent; from and to are query strings.
\* DateRange | undefined is [bounded, gte, lte], bounded = FALSE for undefined.
NoRange == [bounded |-> FALSE, gte |-> 0, lte |-> 0]
Range(gte, lte) == [bounded |-> TRUE, gte |-> gte, lte |-> lte]

\* The period, from and to a report response echoes (from and to as days);
\* NoMeta where a response carries none.
NoMeta == [period |-> "", from |-> 0, to |-> 0]

\* The Authorization header of a read request: NoToken when there is none,
\* else the bearer token.
NoToken == 0 - 1

\* No read request has been made.  A request holds its query, then its
\* response: status and body, the range resolved for it and the where clause
\* of every rollup query made for it, and how many times it has been answered;
\* work and timer are the two promises withTimeout races.
IdleReq ==
    [pc |-> "idle", endpoint |-> "", metric |-> "",
     query |-> [period |-> "", from |-> AbsentStr, to |-> AbsentStr],
     status |-> 0, wheres |-> <<>>, totals |-> <<>>, rows |-> <<>>, served |-> 0,
     range |-> NoRange, meta |-> NoMeta, overview |-> <<>>,
     limitStr |-> [k |-> "absent", h |-> 0], limit |-> 0, token |-> NoToken,
     work |-> "none", timer |-> "none"]

Init ==
    /\ now = 0
    /\ sessions = <<>>
    /\ events = <<>>
    /\ dailyStats = <<>>
    /\ calls = [c \in CallIds |-> IdleCall]
    /\ failures = 0
    /\ req = IdleReq
    /\ adminSessions = {}
    /\ authLog = <<>>

InFlight(c) == calls[c].pc \notin {"idle", "done", "failed"}

\* ------------------------------------------------------------------ rollup
\* Faulty variant of NewDailyRow: every counter of a created row starts at 1.
NewDailyRowAllOnes(metric) == [m \in Metrics |-> 1]

\* The create branch of the upsert: 1 for the metric, 0 for the other four.
NewDailyRow(metric) == [m \in Metrics |-> IF m = metric THEN 1 ELSE 0]

\* Faulty variants of incrementDailyMetric: the row keyed by the instant
\* instead of the UTC date, and an update that stores 1 instead of incrementing.
incrementDailyMetricAtInstant(ds, metric, at) ==
    IF at \in DOMAIN ds
    THEN [ds EXCEPT ![at][metric] = @ + 1]
    ELSE ds @@ (at :> NewDailyRow(metric))

incrementDailyMetricOverwrite(ds, metric, at) ==
    LET day == (at \div TicksPerDay) * TicksPerDay IN
    IF day \in DOMAIN ds
    THEN [ds EXCEPT ![day][metric] = 1]
    ELSE ds @@ (day :> NewDailyRow(metric))

\* prisma.dailyStats.upsert: one atomic storage statement.
incrementDailyMetric(ds, metric, at) ==
    LET day == toUtcDateOnly(at) IN
    IF day \in DOMAIN ds
    THEN [ds EXCEPT ![day][metric] = @ + 1]
    ELSE ds @@ (day :> NewDailyRow(metric))

\* ------------------------------------------------------------------ ranges
\* setMonth(getMonth() - 1) and setFullYear(getFullYear() - 1) are calendar
\* steps; day 0 of the model is 2024-03-01, so one month back is 29 days and
\* one year back is 366 days for every day the clock reaches.
MonthBackDays == 29
YearBackDays == 366

\* Faulty variant of PeriodBack: every period goes one week back.
PeriodBackOneWeek(period) == 7 * TicksPerDay

PeriodBack(period) ==
    CASE period = "day" -> TicksPerDay
      [] period = "week" -> 7 * TicksPerDay
      [] period = "month" -> MonthBackDays * TicksPerDay
      [] period = "year" -> YearBackDays * TicksPerDay
      [] OTHER -> 0

\* Faulty variant of resolveDateRange: a custom range always ends now.
resolveDateRangeToNow(input, clock) ==
    IF input.period = "" THEN NoRange
    ELSE IF input.period = "custom"
    THEN LET from == asDate(input.from)
         IN IF ~from.ok \/ from.t > clock THEN NoRange ELSE Range(from.t, clock)
    ELSE Range(clock - PeriodBack(input.period), clock)

resolveDateRange(input, clock) ==
    IF input.period = "" THEN NoRange
    ELSE IF input.period = "custom"
    THEN LET from == asDate(input.from)
             to == Coalesce(asDate(input.to), Some(clock))
         IN IF ~from.ok \/ from.t > to.t THEN NoRange ELSE Range(from.t, to.t)
    ELSE Range(clock - PeriodBack(input.period), clock)

\* Faulty variant of toDailyWhere: gte is not truncated to its UTC date.
toDailyWhereUnfloored(range) ==
    IF ~range.bounded THEN NoRange
    ELSE Range(range.gte, toUtcDateOnly(range.lte))

toDailyWhere(range) ==
    IF ~range.bounded THEN NoRange
    ELSE Range(toUtcDateOnly(range.gte), toUtcDateOnly(range.lte))

\* The rows of daily_stats a where clause selects (all of them when undefined).
DailyRows(ds, where) ==
    {d \in DOMAIN ds : ~where.bounded \/ (where.gte <= d /\ d <= where.lte)}

RECURSIVE SumOver(_, _, _)
SumOver(ds, days, metric) ==
    IF days = {} THEN 0
    ELSE LET d == CHOOSE x \in days : TRUE
         IN ds[d][metric] + SumOver(ds, days \ {d}, metric)

\* getSessionsCount .. getGoalsCount: resolveDateRange, then the aggregate
\* _sum of one counter (0 when no row matches).
getCount(ds, metric, rangeInput, clock) ==
    SumOver(ds, DailyRows(ds, toDailyWhere(resolveDateRange(rangeInput, clock))), metric)

\* ------------------------------------------------------------------ recorder
\* ensureSession up to the await of findUnique: the locals, then the lookup.
ensureSessionLocals(payload, clock) ==
    LET startTime == Coalesce(asDate(payload.startTime),
                              Coalesce(asDate(payload.timestamp), Some(clock))).t
        duration == IF asNumber(payload.duration).ok THEN asNumber(payload.duration).n ELSE 0
        lastPingTime == Coalesce(asDate(payload.lastPingTime),
                                 Coalesce(asDate(payload.timestamp), Some(startTime))).t
    IN [startTime |-> startTime, duration |-> duration, lastPingTime |-> lastPingTime]

\* Faulty variant of ensureSessionCreated: "created" on the update branch too.
ensureSessionCreatedAlways(existing) == TRUE

\* The value ensureSession returns in its "created" field on each branch.
ensureSessionCreated(existing) == ~existing

\* Faulty variant of trackRouteStatus: the handler does not await the recorder.
trackRouteStatusUnawaited(pc) == IF pc = "idle" THEN 0 ELSE 200

\* The status the handler of POST /api/track/* replies with: none while it
\* awaits the recorder, 200 {success: true} when the recorder call returned,
\* 500 {error} in its catch.
trackRouteStatus(pc) ==
    IF pc = "done" THEN 200 ELSE IF pc = "failed" THEN 500 ELSE 0

\* The handler after a step of the recorder call it awaits.
Reply(call) == [call EXCEPT !.status = trackRouteStatus(call.pc)]

\* The payloads of the track calls modelled carry no deviceType, userAgent,
\* city, path or label: asString() of each is undefined, so session.create
\* stores NULL (NoText, and NoWords for the user agent, a text held as its
\* words), session.update leaves the column as it is, a page view gets the
\* path "/" and a click its label from the metadata.
NoText == ""
NoWords == <<>>
DefaultPath == "/"

\* Faulty variant of sessionUpdate: startTime is written on update as well.
sessionUpdateWithStart(row, call) ==
    [row EXCEPT !.startTime = call.startTime, !.lastPingTime = call.lastPingTime,
                !.duration = call.duration]

\* The data of ensureSession's session.update, of the fields modelled.
sessionUpdate(row, call) ==
    [row EXCEPT !.lastPingTime = call.lastPingTime, !.duration = call.duration]

\* The data of ensureSession's session.create, of the fields modelled.
sessionCreate(call) ==
    [startTime |-> call.startTime, lastPingTime |-> call.lastPingTime,
     duration |-> call.duration,
     deviceType |-> NoText, userAgent |-> NoWords, city |-> NoText]

\* Faulty variants of goalEnsuresSession: ensureSession is called for every
\* goal, and for none.
goalEnsuresSessionAlways(maybeSessionId) == TRUE
goalEnsuresSessionNever(maybeSessionId) == FALSE

\* trackGoal: if (maybeSessionId), the goals that call ensureSession.
goalEnsuresSession(maybeSessionId) == asString(maybeSessionId)

\* The handler is entered: the session id is resolved, and for every call
\* that has a session ensureSession looks the session up.
Begin(c, op, payload) ==
    /\ calls[c].pc = "idle"
    /\ \A b \in CallIds : b < c => calls[b].pc # "idle"
    /\  LET anonymous == op = "goal" /\ ~goalEnsuresSession(payload.sessionId)
            sid == IF op = "goal" THEN payload.sessionId ELSE resolveSessionId(payload, c)
            loc == ensureSessionLocals(payload, now)
            existing == sid \in DOMAIN sessions
        IN calls' = [calls EXCEPT ![c] = Reply(
              [pc |-> IF anonymous THEN "insert"
                      ELSE IF existing THEN "update" ELSE "create",
               op |-> op, payload |-> payload, sessionId |-> sid,
               created |-> FALSE,
               startTime |-> IF anonymous THEN 0 ELSE loc.startTime,
               lastPingTime |-> IF anonymous THEN 0 ELSE loc.lastPingTime,
               duration |-> IF anonymous THEN 0 ELSE loc.duration,
               timestamp |-> IF anonymous THEN Coalesce(asDate(payload.timestamp), Some(now)).t ELSE 0,
               err |-> "", status |-> 0])]
    /\ UNCHANGED <<now, sessions, events, dailyStats, failures, req, adminSessions, authLog>>

\* What the handler does when ensureSession has returned: trackSession goes
\* on to the sessions counter if the session was created, the others read the
\* event's timestamp and insert the event row.
AfterEnsure(call, created, clock) ==
    [call EXCEPT
        !.created = created,
        !.timestamp = Coalesce(asDate(call.payload.timestamp), Some(clock)).t,
        !.pc = IF call.op = "session"
               THEN (IF created THEN "inc" ELSE "done")
               ELSE "insert"]

\* Faulty variant of sessionsPkeyRejects: sessions.id is not unique.
sessionsPkeyRejectsNever(table, id) == FALSE

\* CONSTRAINT sessions_pkey PRIMARY KEY (id): an insert of an id that is
\* already stored is rejected.
sessionsPkeyRejects(table, id) == id \in DOMAIN table

\* The foreign key of an event row's session_id: an insert that references a
\* session that is not stored is rejected; a null reference is accepted.
sessionIdFkeyRejects(table, sessionId) == sessionId # NoId /\ sessionId \notin DOMAIN table

\* ensureSession, the session did not exist at findUnique: session.create.
\* The primary key sessions_pkey rejects a second row of the same id.
EnsureCreate(c) ==
    /\ calls[c].pc = "create"
    /\ IF sessionsPkeyRejects(sessions, calls[c].sessionId)
       THEN /\ calls' = [calls EXCEPT ![c] = Reply([@ EXCEPT !.pc = "failed", !.err = "P2002"])]
            /\ UNCHANGED sessions
       ELSE /\ sessions' = sessions @@ (calls[c].sessionId :> sessionCreate(calls[c]))
            /\ calls' = [calls EXCEPT ![c] = Reply(AfterEnsure(@, ensureSessionCreated(FALSE), now))]
    /\ UNCHANGED <<now, events, dailyStats, failures, req, adminSessions, authLog>>

\* ensureSession, the session existed at findUnique: session.update.
EnsureUpdate(c) ==
    /\ calls[c].pc = "update"
    /\ sessions' = [sessions EXCEPT ![calls[c].sessionId] = sessionUpdate(@, calls[c])]
    /\ calls' = [calls EXCEPT ![c] = Reply(AfterEnsure(@, ensureSessionCreated(TRUE), now))]
    /\ UNCHANGED <<now, events, dailyStats, failures, req, adminSessions, authLog>>

\* pageView.create / ping.create / click.create / goal.create
InsertEvent(c) ==
    /\ calls[c].pc = "insert"
    /\ IF sessionIdFkeyRejects(sessions, calls[c].sessionId)
       THEN /\ calls' = [calls EXCEPT ![c] = Reply([@ EXCEPT !.pc = "failed", !.err = "P2003"])]
            /\ UNCHANGED events
       ELSE /\ events' = events @@ (c :>
                  [type |-> calls[c].op, sessionId |-> calls[c].sessionId,
                   timestamp |-> calls[c].timestamp, kind |-> calls[c].payload.kind,
                   path |-> IF calls[c].op = "view" THEN DefaultPath ELSE NoText,
                   label |-> IF calls[c].op = "click" THEN LinkLabel ELSE NoText])
            /\ calls' = [calls EXCEPT ![c] = Reply([@ EXCEPT !.pc = IF calls[c].op = "ping" THEN "pingUpdate" ELSE "inc"])]
    /\ UNCHANGED <<now, sessions, dailyStats, failures, req, adminSessions, authLog>>

\* Faulty variant of pingSessionUpdate: the later lastPingTime and the larger
\* duration are kept.
pingSessionUpdateMax(row, call) ==
    [row EXCEPT !.lastPingTime = IF call.timestamp > @ THEN call.timestamp ELSE @,
                !.duration = IF call.duration > @ THEN call.duration ELSE @]

\* The data of trackPing's session.update: the ping's timestamp and duration.
pingSessionUpdate(row, call) ==
    [row EXCEPT !.lastPingTime = call.timestamp, !.duration = call.duration]

\* trackPing: session.update of lastPingTime and duration after ping.create
PingUpdate(c) ==
    /\ calls[c].pc = "pingUpdate"
    /\ sessions' = [sessions EXCEPT ![calls[c].sessionId] = pingSessionUpdate(@, calls[c])]
    /\ calls' = [calls EXCEPT ![c] = Reply([@ EXCEPT !.pc = "inc"])]
    /\ UNCHANGED <<now, events, dailyStats, failures, req, adminSessions, authLog>>

\* Faulty variant of IncrementAt: every increment is made at the startTime
\* ensureSession resolved.
IncrementAtStart(call) == call.startTime

\* The date a call's rollup increment is made at.
IncrementAt(call) == IF call.op = "session" THEN call.startTime ELSE call.timestamp

\* incrementDailyMetric, the last await of every handler
Increment(c) ==
    /\ calls[c].pc = "inc"
    /\ dailyStats' = incrementDailyMetric(dailyStats, MetricOf(calls[c].op), IncrementAt(calls[c]))
    /\ calls' = [calls EXCEPT ![c] = Reply([@ EXCEPT !.pc = "done"])]
    /\ UNCHANGED <<now, sessions, events, failures, req, adminSessions, authLog>>

\* The storage call a handler is waiting for fails (storage unavailable):
\* the rejection propagates, nothing the handler wrote before is undone.
StorageFailure(c) ==
    /\ InFlight(c)
    /\ failures < MaxFailures
    /\ failures' = failures + 1
    /\ calls' = [calls EXCEPT ![c] = Reply([@ EXCEPT !.pc = "failed", !.err = "storage"])]
    /\ UNCHANGED <<now, sessions, events, dailyStats, req, adminSessions, authLog>>

Tick ==
    /\ now < MaxTime
    /\ now' = now + 1
    /\ UNCHANGED <<sessions, events, dailyStats, calls, failures, req, adminSessions, authLog>>

Next ==
    \/ \E c \in CallIds : \E op \in Ops : \E payload \in Payloads(op) : Begin(c, op, payload)
    \/ \E c \in CallIds : EnsureCreate(c)
    \/ \E c \in CallIds : EnsureUpdate(c)
    \/ \E c \in CallIds : InsertEvent(c)
    \/ \E c \in CallIds : PingUpdate(c)
    \/ \E c \in CallIds : Increment(c)
    \/ \E c \in CallIds : StorageFailure(c)
    \/ Tick

Spec == Init /\ [][Next]_vars

\* All calls made have completed or failed: no handler is between two awaits.
Quiet == \A c \in CallIds : ~InFlight(c)

\* The payloads of clients that report a duration and a startTime of their own.
Durations == {NoNumber, 30}
DurationPayloads(op) ==
    [sessionId : ClientIds,
     startTime : {AbsentStr, DateStr(1)},
     lastPingTime : {AbsentStr},
     timestamp : PayloadStamps,
     duration : Durations,
     kind : IF op = "click" THEN {"social"} ELSE {""}]

\* A track call of such a client, made while no other call is in progress.
DurationBegin(c) ==
    /\ Quiet
    /\ \E op \in Ops : \E payload \in DurationPayloads(op) : Begin(c, op, payload)

\* The clock between two calls.
QuietTick ==
    /\ Quiet
    /\ Tick

NextDuration ==
    \/ \E c \in CallIds : DurationBegin(c)
    \/ \E c \in CallIds : EnsureCreate(c)
    \/ \E c \in CallIds : EnsureUpdate(c)
    \/ \E c \in CallIds : InsertEvent(c)
    \/ \E c \in CallIds : PingUpdate(c)
    \/ \E c \in CallIds : Increment(c)
    \/ QuietTick

SpecDuration == Init /\ [][NextDuration]_vars

\* ------------------------------------------------------------------ stats routes
AllowedPeriods == {"day", "week", "month", "year", "custom"}

\* The query strings of the read requests: every allowed period, no period,
\* a period that is not allowed; from and to are sent with period=custom.
QueryDays == 0..(MaxTime \div TicksPerDay)
QueryStamps == {AbsentStr, GarbageStr} \cup {DateStr(d) : d \in QueryDays}
Queries ==
    [period : (AllowedPeriods \ {"custom"}) \cup {"", "hour"}, from : {AbsentStr}, to : {AbsentStr}]
    \cup [period : {"custom"}, from : QueryStamps, to : QueryStamps]

\* parseStatsQuery: TRUE when it returns {error}.
parseStatsQueryError(query) ==
    \/ (query.period # "" /\ query.period \notin AllowedPeriods)
    \/ (query.period = "custom" /\ query.from.k = "absent")

\* The order getStatsByRange and getReportOverview read the five metrics in.
MetricOrder == <<"sessions", "pageViews", "pings", "clicks", "goals">>

\* A response: its status and body, with the where clause of every rollup
\* query made for it, and how many times this request has been answered.
Response(endpoint, metric, query, status, wheres, totals, rows) ==
    [IdleReq EXCEPT
        !.pc = "responded", !.endpoint = endpoint, !.metric = metric, !.query = query,
        !.status = status, !.wheres = wheres, !.totals = totals, !.rows = rows, !.served = 1]

\* GET /api/stats/{sessions,accesses,pings,clicks,goals}
CountRequest ==
    /\ Quiet
    /\ req.pc = "idle"
    /\ \E metric \in Metrics : \E query \in Queries :
         req' = IF parseStatsQueryError(query)
                THEN Response("count", metric, query, 400, <<>>, <<>>, <<>>)
                ELSE [Response("count", metric, query, 200,
                               <<toDailyWhere(resolveDateRange(query, now))>>,
                               <<getCount(dailyStats, metric, query, now)>>, <<>>)
                        EXCEPT !.range = resolveDateRange(query, now)]
    /\ UNCHANGED <<now, sessions, events, dailyStats, calls, failures, adminSessions, authLog>>

\* GET /api/stats/summary up to the call of getStatsByRange
SummaryBegin ==
    /\ Quiet
    /\ req.pc = "idle"
    /\ \E query \in Queries :
         req' = IF parseStatsQueryError(query)
                THEN Response("summary", "", query, 400, <<>>, <<>>, <<>>)
                ELSE [Response("summary", "", query, 0, <<>>, <<>>, <<>>) EXCEPT !.pc = "summary"]
    /\ UNCHANGED <<now, sessions, events, dailyStats, calls, failures, adminSessions, authLog>>

\* getStatsByRange: the next of its five awaited get*Count calls, each of
\* which resolves the range again from the clock.
SummaryQuery ==
    /\ req.pc = "summary"
    /\ LET metric == MetricOrder[Len(req.totals) + 1]
           last == Len(req.totals) + 1 = Len(MetricOrder)
       IN req' = [req EXCEPT
                    !.wheres = Append(@, toDailyWhere(resolveDateRange(req.query, now))),
                    !.totals = Append(@, getCount(dailyStats, metric, req.query, now)),
                    !.pc = IF last THEN "responded" ELSE "summary",
                    !.status = IF last THEN 200 ELSE 0]
    /\ UNCHANGED <<now, sessions, events, dailyStats, calls, failures, adminSessions, authLog>>

\* A track call made while no other is in progress and before any read.
SeqBegin(c) ==
    /\ Quiet
    /\ req.pc = "idle"
    /\ \E op \in Ops : \E payload \in Payloads(op) : Begin(c, op, payload)

\* The clock as the read specifications see it: it advances between the
\* track calls and between the awaits of a read, until the response is sent.
SlowTick ==
    /\ Quiet
    /\ req.pc # "responded"
    /\ Tick

NextStats ==
    \/ \E c \in CallIds : SeqBegin(c)
    \/ \E c \in CallIds : EnsureCreate(c)
    \/ \E c \in CallIds : EnsureUpdate(c)
    \/ \E c \in CallIds : InsertEvent(c)
    \/ \E c \in CallIds : PingUpdate(c)
    \/ \E c \in CallIds : Increment(c)
    \/ SlowTick
    \/ CountRequest

SpecStats == Init /\ [][NextStats]_vars

NextSummary ==
    \/ \E c \in CallIds : SeqBegin(c)
    \/ \E c \in CallIds : EnsureCreate(c)
    \/ \E c \in CallIds : EnsureUpdate(c)
    \/ \E c \in CallIds : InsertEvent(c)
    \/ \E c \in CallIds : PingUpdate(c)
    \/ \E c \in CallIds : Increment(c)
    \/ SlowTick
    \/ SummaryBegin
    \/ SummaryQuery

SpecSummary == Init /\ [][NextSummary]_vars

\* ------------------------------------------------------------------ reports routes
\* parseRangeQuery: TRUE when it returns {error}.
parseRangeQueryError(query) ==
    \/ (query.period # "" /\ query.period \notin AllowedPeriods)
    \/ (query.period = "custom" /\ query.from.k = "absent")

\* new Date("1970-01-01T00:00:00.000Z"), 19783 days before day 0 (2024-03-01).
DaysSinceEpoch == 19783
Epoch == 0 - DaysSinceEpoch * TicksPerDay

resolveDateRangeOrAll(input, clock) ==
    LET range == resolveDateRange(input, clock)
    IN IF range.bounded THEN range ELSE Range(Epoch, clock)

\* toISOString().slice(0, 10): the UTC day of a Date.
toIsoDate(date) == date \div TicksPerDay

\* resolveRangeMeta: the period, from and to echoed in a report response.
resolveRangeMeta(input, clock) ==
    IF input.period = "custom"
    THEN [period |-> "custom",
          from |-> toIsoDate(Coalesce(asDate(input.from), Some(Epoch)).t),
          to |-> toIsoDate(Coalesce(asDate(input.to), Some(clock)).t)]
    ELSE IF input.period # ""
    THEN [period |-> input.period,
          from |-> toIsoDate(clock - PeriodBack(input.period)),
          to |-> toIsoDate(clock)]
    ELSE [period |-> "all", from |-> toIsoDate(Epoch), to |-> toIsoDate(clock)]

\* getReportTopLinks: the clicks of kind social or link-card whose timestamp
\* lies in [gte, lte], grouped by label and url (one group here), at most
\* safeLimit >= 1 rows.
getReportTopLinks(ev, rangeInput, clock) ==
    LET range == resolveDateRangeOrAll(rangeInput, clock)
        matching == {c \in DOMAIN ev :
                        /\ ev[c].type = "click"
                        /\ ev[c].timestamp >= range.gte /\ ev[c].timestamp <= range.lte
                        /\ ev[c].kind \in {"social", "link-card"}}
    IN IF matching = {} THEN <<>>
       ELSE <<[label |-> LinkLabel, url |-> LinkUrl, clicks |-> Cardinality(matching)]>>

\* GET /api/reports/top-links
TopLinksRequest ==
    /\ Quiet
    /\ req.pc = "idle"
    /\ \E query \in Queries :
         req' = IF parseRangeQueryError(query)
                THEN Response("top-links", "", query, 400, <<>>, <<>>, <<>>)
                ELSE [Response("top-links", "", query, 200, <<>>, <<>>,
                               getReportTopLinks(events, query, now))
                        EXCEPT !.range = resolveDateRangeOrAll(query, now),
                               !.meta = resolveRangeMeta(query, now)]
    /\ UNCHANGED <<now, sessions, events, dailyStats, calls, failures, adminSessions, authLog>>

\* orderBy: { date: "asc" }
RECURSIVE Ascending(_)
Ascending(dates) ==
    IF dates = {} THEN <<>>
    ELSE LET first == CHOOSE d \in dates : \A e \in dates : d <= e
         IN <<first>> \o Ascending(dates \ {first})

NoValue == 0 - 1

\* Faulty variant of Point: the value is always the sessions counter.
PointOfSessions(ds, date, metric) ==
    [date |-> toIsoDate(date),
     value |-> IF metric # "" THEN ds[date]["sessions"] ELSE NoValue,
     counters |-> IF metric # "" THEN <<>> ELSE [i \in 1..Len(MetricOrder) |-> ds[date][MetricOrder[i]]]]

\* One point of getReportTimeseries: the selected counter as value, or the
\* five counters (value is then not part of the point).
Point(ds, date, metric) ==
    [date |-> toIsoDate(date),
     value |-> IF metric # "" THEN ds[date][metric] ELSE NoValue,
     counters |-> IF metric # "" THEN <<>> ELSE [i \in 1..Len(MetricOrder) |-> ds[date][MetricOrder[i]]]]

getReportTimeseries(ds, rangeInput, metric, clock) ==
    LET rows == Ascending(DailyRows(ds, toDailyWhere(resolveDateRange(rangeInput, clock))))
    IN [i \in 1..Len(rows) |-> Point(ds, rows[i], metric)]

\* parseMetric: the metric, or "" for null.
parseMetric(value) == IF value \in Metrics THEN value ELSE ""

\* The metric query strings of the timeseries requests: none, a metric, and
\* a name that is no metric.
MetricParams == {"", "pageViews", "visits"}

\* The body of GET /api/reports/timeseries when the clock reads `clock`.
TimeseriesResponse(query, metricParam, clock) ==
    IF parseRangeQueryError(query) \/ (metricParam # "" /\ parseMetric(metricParam) = "")
    THEN Response("timeseries", metricParam, query, 400, <<>>, <<>>, <<>>)
    ELSE [Response("timeseries", metricParam, query, 200,
                   <<toDailyWhere(resolveDateRange(query, clock))>>, <<>>,
                   getReportTimeseries(dailyStats, query, parseMetric(metricParam), clock))
            EXCEPT !.range = resolveDateRange(query, clock),
                   !.meta = resolveRangeMeta(query, clock)]

\* GET /api/reports/timeseries
TimeseriesRequest ==
    /\ Quiet
    /\ req.pc = "idle"
    /\ \E query \in Queries : \E metricParam \in MetricParams :
         req' = TimeseriesResponse(query, metricParam, now)
    /\ UNCHANGED <<now, sessions, events, dailyStats, calls, failures, adminSessions, authLog>>

\* The client sends the timeseries request it has been answered once more.
MaxReplays == 1

TimeseriesReplay ==
    /\ Quiet
    /\ req.pc = "responded"
    /\ req.endpoint = "timeseries"
    /\ req.served <= MaxReplays
    /\ req' = [TimeseriesResponse(req.query, req.metric, now) EXCEPT !.served = req.served + 1]
    /\ UNCHANGED <<now, sessions, events, dailyStats, calls, failures, adminSessions, authLog>>

\* The clock between the replays of a request.
ReplayTick ==
    /\ Quiet
    /\ req.served <= MaxReplays
    /\ Tick

NextReports ==
    \/ \E c \in CallIds : SeqBegin(c)
    \/ \E c \in CallIds : EnsureCreate(c)
    \/ \E c \in CallIds : EnsureUpdate(c)
    \/ \E c \in CallIds : InsertEvent(c)
    \/ \E c \in CallIds : PingUpdate(c)
    \/ \E c \in CallIds : Increment(c)
    \/ SlowTick
    \/ TopLinksRequest

SpecReports == Init /\ [][NextReports]_vars

NextSeries ==
    \/ \E c \in CallIds : SeqBegin(c)
    \/ \E c \in CallIds : EnsureCreate(c)
    \/ \E c \in CallIds : EnsureUpdate(c)
    \/ \E c \in CallIds : InsertEvent(c)
    \/ \E c \in CallIds : PingUpdate(c)
    \/ \E c \in CallIds : Increment(c)
    \/ ReplayTick
    \/ TimeseriesRequest
    \/ TimeseriesReplay

SpecSeries == Init /\ [][NextSeries]_vars

\* ------------------------------------------------------------------ admin sessions
MaxAuthOps == 4

\* Bearer tokens: the token a login issues is a fresh randomUUID(), here the
\* number of the auth response that carries it; StrangerToken is a token no
\* login ever issued.
StrangerToken == 0
randomToken == Len(authLog) + 1

\* The email and password of a login request: those of the active admin
\* user, others, or none.
Credentials == {"valid", "wrong", "missing"}
verifyAdminCredentials(cred) == cred = "valid"

createAdminSession(tokens, token) == tokens \cup {token}

verifyAdminToken(tokens, token) == token \in tokens

\* Faulty variant of logoutAdmin: every admin session is deleted.
logoutAdminAll(tokens, token) == {}

\* adminSession.deleteMany({ where: { id: token } })
logoutAdmin(tokens, token) == tokens \ {token}

\* The tokens of the successful logins answered so far.
IssuedTokens ==
    {authLog[i].token : i \in {j \in 1..Len(authLog) :
                                  authLog[j].op = "login" /\ authLog[j].status = 200}}

\* POST /api/auth/login
Login(cred) ==
    /\ Len(authLog) < MaxAuthOps
    /\ IF cred = "missing"
       THEN /\ authLog' = Append(authLog, [op |-> "login", status |-> 400, token |-> NoToken])
            /\ UNCHANGED adminSessions
       ELSE IF ~verifyAdminCredentials(cred)
       THEN /\ authLog' = Append(authLog, [op |-> "login", status |-> 401, token |-> NoToken])
            /\ UNCHANGED adminSessions
       ELSE /\ adminSessions' = createAdminSession(adminSessions, randomToken)
            /\ authLog' = Append(authLog, [op |-> "login", status |-> 200, token |-> randomToken])
    /\ UNCHANGED <<now, sessions, events, dailyStats, calls, failures, req>>

\* POST /api/auth/logout with the bearer token `token`, or without a header.
Logout(token) ==
    /\ Len(authLog) < MaxAuthOps
    /\ adminSessions' = IF token # NoToken THEN logoutAdmin(adminSessions, token)
                                           ELSE adminSessions
    /\ authLog' = Append(authLog, [op |-> "logout", status |-> 200, token |-> token])
    /\ UNCHANGED <<now, sessions, events, dailyStats, calls, failures, req>>

NextAuth ==
    \/ \E cred \in Credentials : Login(cred)
    \/ \E token \in IssuedTokens \cup {StrangerToken, NoToken} : Logout(token)

SpecAuth == Init /\ [][NextAuth]_vars

\* ------------------------------------------------------------------ read requests and their timeout
\* The read requests of this part: from and to of a custom range, no to.
TimedQueries == {q \in Queries : q.to = AbsentStr}
TimedMetrics == {"sessions", "pageViews"}

\* Faulty variant of validateOptionalToken: an unknown token is answered 401.
validateRequiredToken(valid) == IF valid THEN 0 ELSE 401

\* validateOptionalToken: what it makes of verifyAdminToken's answer, as the
\* status to reply with at once, 0 to go on: the answer is not looked at.
validateOptionalToken(valid) == 0

\* The handler of a count request after validateOptionalToken: parseStatsQuery,
\* then withTimeout(get*Count(parsed)), which resolves the range, sends the
\* query and arms the timer.
StartCount(r) ==
    IF parseStatsQueryError(r.query)
    THEN [r EXCEPT !.pc = "responded", !.status = 400, !.served = 1]
    ELSE [r EXCEPT !.pc = "racing", !.work = "pending", !.timer = "armed",
                   !.range = resolveDateRange(r.query, now),
                   !.wheres = <<toDailyWhere(resolveDateRange(r.query, now))>>]

\* GET /api/stats/{sessions,accesses}: with a Bearer header the handler first
\* awaits verifyAdminToken.
StatsArrive ==
    /\ Quiet
    /\ req.pc = "idle"
    /\ \E token \in IssuedTokens \cup {StrangerToken, NoToken} :
       \E metric \in TimedMetrics : \E query \in TimedQueries :
         LET r == [IdleReq EXCEPT !.endpoint = "count", !.metric = metric,
                                  !.query = query, !.token = token]
         IN req' = IF token = NoToken THEN StartCount(r) ELSE [r EXCEPT !.pc = "auth"]
    /\ UNCHANGED <<now, sessions, events, dailyStats, calls, failures, adminSessions, authLog>>

\* verifyAdminToken has answered.
TokenSettles ==
    /\ req.pc = "auth"
    /\ LET status == validateOptionalToken(verifyAdminToken(adminSessions, req.token))
       IN req' = IF status # 0
                 THEN [req EXCEPT !.pc = "responded", !.status = status, !.served = 1]
                 ELSE StartCount(req)
    /\ UNCHANGED <<now, sessions, events, dailyStats, calls, failures, adminSessions, authLog>>

\* verifyAdminToken rejects (storage failure): the handler's catch.
TokenFails ==
    /\ req.pc = "auth"
    /\ failures < MaxFailures
    /\ failures' = failures + 1
    /\ req' = [req EXCEPT !.pc = "responded", !.status = 500, !.served = 1]
    /\ UNCHANGED <<now, sessions, events, dailyStats, calls, adminSessions, authLog>>

\* GET /api/reports/timeseries: parseRangeQuery, parseMetric, then
\* withTimeout(getReportTimeseries(parsed, metric)).
ReportArrive ==
    /\ Quiet
    /\ req.pc = "idle"
    /\ \E metricParam \in MetricParams : \E query \in TimedQueries :
         LET r == [IdleReq EXCEPT !.endpoint = "timeseries", !.metric = metricParam,
                                  !.query = query]
         IN req' = IF parseRangeQueryError(query) \/ (metricParam # "" /\ parseMetric(metricParam) = "")
                   THEN [r EXCEPT !.pc = "responded", !.status = 400, !.served = 1]
                   ELSE [r EXCEPT !.pc = "racing", !.work = "pending", !.timer = "armed",
                                  !.range = resolveDateRange(query, now),
                                  !.meta = resolveRangeMeta(query, now),
                                  !.wheres = <<toDailyWhere(resolveDateRange(query, now))>>]
    /\ UNCHANGED <<now, sessions, events, dailyStats, calls, failures, adminSessions, authLog>>

\* Faulty variant of dailyStatsAfterRead: the read creates the row of the
\* last day it asks for when that row is missing.
dailyStatsAfterReadCreating(ds, where) ==
    IF where.bounded /\ where.lte \notin DOMAIN ds
    THEN ds @@ (where.lte :> [m \in Metrics |-> 0])
    ELSE ds

\* prisma.dailyStats.aggregate and findMany are queries: the table after one.
dailyStatsAfterRead(ds, where) == ds

\* The reply of the handler whose query has resolved.
Resolved(r) ==
    IF r.endpoint = "count"
    THEN [r EXCEPT !.pc = "responded", !.status = 200, !.served = @ + 1,
                   !.totals = <<SumOver(dailyStats, DailyRows(dailyStats, r.wheres[1]), r.metric)>>]
    ELSE [r EXCEPT !.pc = "responded", !.status = 200, !.served = @ + 1,
                   !.rows = [i \in 1..Len(Ascending(DailyRows(dailyStats, r.wheres[1]))) |->
                               Point(dailyStats, Ascending(DailyRows(dailyStats, r.wheres[1]))[i],
                                     parseMetric(r.metric))]]

\* The query settles.  Promise.race takes the first of the two promises to
\* settle: a query that settles after the timer fired changes nothing.
WorkSettles ==
    /\ req.work = "pending"
    /\ req' = [(IF req.pc = "racing" THEN Resolved(req) ELSE req) EXCEPT !.work = "resolved"]
    /\ dailyStats' = dailyStatsAfterRead(dailyStats, req.wheres[1])
    /\ UNCHANGED <<now, sessions, events, calls, failures, adminSessions, authLog>>

\* The query rejects (storage failure): reportErrorStatus / getErrorStatus
\* give 500 for an error that is not the timeout.
WorkFails ==
    /\ req.work = "pending"
    /\ failures < MaxFailures
    /\ failures' = failures + 1
    /\ req' = [(IF req.pc = "racing"
                THEN [req EXCEPT !.pc = "responded", !.status = 500, !.served = @ + 1]
                ELSE req) EXCEPT !.work = "rejected"]
    /\ UNCHANGED <<now, sessions, events, dailyStats, calls, adminSessions, authLog>>

\* setTimeout fires after timeoutMs and rejects with the timeout error: 504
\* if the handler is still waiting.  The timer is never cleared.
Timeout ==
    /\ req.timer = "armed"
    /\ req' = [(IF req.pc = "racing"
                THEN [req EXCEPT !.pc = "responded", !.status = 504, !.served = @ + 1]
                ELSE req) EXCEPT !.timer = "fired"]
    /\ UNCHANGED <<now, sessions, events, dailyStats, calls, failures, adminSessions, authLog>>

\* The page views tracked and the admin logged in before the read request.
ViewBegin(c) ==
    /\ Quiet
    /\ req.pc = "idle"
    /\ \E payload \in Payloads("view") : payload.sessionId # NoId /\ Begin(c, "view", payload)

FirstLogin ==
    /\ authLog = <<>>
    /\ req.pc = "idle"
    /\ Login("valid")

IdleTick ==
    /\ Quiet
    /\ req.pc = "idle"
    /\ Tick

NextTimed ==
    \/ \E c \in CallIds : ViewBegin(c)
    \/ \E c \in CallIds : EnsureCreate(c)
    \/ \E c \in CallIds : EnsureUpdate(c)
    \/ \E c \in CallIds : InsertEvent(c)
    \/ \E c \in CallIds : Increment(c)
    \/ FirstLogin
    \/ IdleTick
    \/ StatsArrive
    \/ TokenSettles
    \/ TokenFails
    \/ ReportArrive
    \/ WorkSettles
    \/ WorkFails
    \/ Timeout

\* Node fires an armed timer; nothing makes the storage answer.
SpecTimed == Init /\ [][NextTimed]_vars /\ WF_vars(Timeout)

\* ------------------------------------------------------------------ reads among track calls
\* The track calls and read requests of this part: sessions, page views and
\* goals without a timestamp, requests without a period or with period=day.
MixedOps == {"session", "view", "goal"}
MixedPayloads(op) == {p \in Payloads(op) : p.timestamp = AbsentStr}
MixedQueries == {q \in TimedQueries : q.period \in {"", "day"}}

\* A track call, made whatever the other calls and the read request are at.
MixedBegin(c) ==
    \E op \in MixedOps : \E payload \in MixedPayloads(op) : Begin(c, op, payload)

\* GET /api/stats/{sessions,accesses} without Authorization header, arriving
\* whatever the track calls are at.
MixedStatsArrive ==
    /\ req.pc = "idle"
    /\ \E metric \in TimedMetrics : \E query \in MixedQueries :
         req' = StartCount([IdleReq EXCEPT !.endpoint = "count", !.metric = metric, !.query = query])
    /\ UNCHANGED <<now, sessions, events, dailyStats, calls, failures, adminSessions, authLog>>

\* GET /api/reports/timeseries, arriving whatever the track calls are at.
MixedReportArrive ==
    /\ req.pc = "idle"
    /\ \E query \in MixedQueries :
         req' = [IdleReq EXCEPT !.endpoint = "timeseries", !.query = query,
                                !.pc = "racing", !.work = "pending", !.timer = "armed",
                                !.range = resolveDateRange(query, now),
                                !.meta = resolveRangeMeta(query, now),
                                !.wheres = <<toDailyWhere(resolveDateRange(query, now))>>]
    /\ UNCHANGED <<now, sessions, events, dailyStats, calls, failures, adminSessions, authLog>>

\* The clock before the read request.
MixedTick ==
    /\ req.pc = "idle"
    /\ Tick

NextMixed ==
    \/ \E c \in CallIds : MixedBegin(c)
    \/ \E c \in CallIds : EnsureCreate(c)
    \/ \E c \in CallIds : EnsureUpdate(c)
    \/ \E c \in CallIds : InsertEvent(c)
    \/ \E c \in CallIds : Increment(c)
    \/ MixedTick
    \/ MixedStatsArrive
    \/ MixedReportArrive
    \/ WorkSettles
    \/ Timeout

SpecMixed == Init /\ [][NextMixed]_vars

\* ------------------------------------------------------------------ overview report
MaxCount == 20
MaxGoals == 2

\* A ratio is held in ten-thousandths: Number(x.toFixed(4)) * 10000.
RateScale == 10000

\* Faulty variant of toFixed4: the digits after the fourth are cut off.
toFixed4Truncated(num, den) == (RateScale * num) \div den

\* Number((num / den).toFixed(4)): the multiple of 1/10000 nearest to num/den,
\* the larger one of two equally near.
toFixed4(num, den) == (2 * RateScale * num + den) \div (2 * den)

RECURSIVE SumDuration(_, _)
SumDuration(sess, ids) ==
    IF ids = {} THEN 0
    ELSE LET s == CHOOSE x \in ids : TRUE
         IN sess[s].duration + SumDuration(sess, ids \ {s})

\* getReportOverview: the five rollup sums, the two ratios, and the average
\* (Math.round) and maximum duration of the sessions started within the range.
getReportOverview(ds, sess, rangeInput, clock) ==
    LET range == resolveDateRange(rangeInput, clock)
        totals == [m \in Metrics |-> getCount(ds, m, rangeInput, clock)]
        started == {s \in DOMAIN sess :
                       \/ ~range.bounded
                       \/ (range.gte <= sess[s].startTime /\ sess[s].startTime <= range.lte)}
    IN [totals |-> totals,
        engagement |->
          [clickThroughRate |-> IF totals["pageViews"] > 0
                                THEN toFixed4(totals["clicks"], totals["pageViews"]) ELSE 0,
           goalsPerSession |-> IF totals["sessions"] > 0
                               THEN toFixed4(totals["goals"], totals["sessions"]) ELSE 0,
           avgSessionDuration |-> IF started = {} THEN 0
                                  ELSE (2 * SumDuration(sess, started) + Cardinality(started))
                                           \div (2 * Cardinality(started)),
           maxSessionDuration |-> IF started = {} THEN 0
                                  ELSE CHOOSE m \in {sess[s].duration : s \in started} :
                                           \A s \in started : sess[s].duration <= m]]

\* GET /api/reports/overview
OverviewRequest ==
    /\ Quiet
    /\ req.pc = "idle"
    /\ \E query \in TimedQueries :
         req' = IF parseRangeQueryError(query)
                THEN Response("overview", "", query, 400, <<>>, <<>>, <<>>)
                ELSE [Response("overview", "", query, 200,
                               <<toDailyWhere(resolveDateRange(query, now))>>, <<>>, <<>>)
                        EXCEPT !.range = resolveDateRange(query, now),
                               !.meta = resolveRangeMeta(query, now),
                               !.overview = getReportOverview(dailyStats, sessions, query, now)]
    /\ UNCHANGED <<now, sessions, events, dailyStats, calls, failures, adminSessions, authLog>>

\* The storage after trackSession for `s` new sessions, then `v` page views
\* and `k` clicks of session 1 and `g` goals without a session, all completed
\* on day 0 by requests that are over.
Tracked(s, v, k, g) ==
    [sessions |-> [id \in 1..(IF s = 0 /\ v + k > 0 THEN 1 ELSE s) |->
                      [startTime |-> 0, lastPingTime |-> 0, duration |-> 0,
                       deviceType |-> NoText, userAgent |-> NoWords, city |-> NoText]],
     events |-> [c \in 1..(v + k + g) |->
                    IF c <= v THEN [type |-> "view", sessionId |-> 1, timestamp |-> 0, kind |-> "",
                                    path |-> DefaultPath, label |-> NoText]
                    ELSE IF c <= v + k
                    THEN [type |-> "click", sessionId |-> 1, timestamp |-> 0, kind |-> "social",
                          path |-> NoText, label |-> LinkLabel]
                    ELSE [type |-> "goal", sessionId |-> NoId, timestamp |-> 0, kind |-> "",
                          path |-> NoText, label |-> NoText]],
     dailyStats |-> IF s + v + k + g = 0 THEN <<>>
                    ELSE 0 :> [sessions |-> s, pageViews |-> v, pings |-> 0,
                               clicks |-> k, goals |-> g]]

InitOverview ==
    /\ now = 0
    /\ \E s \in 0..MaxGoals : \E v \in 0..MaxCount : \E k \in 0..MaxCount : \E g \in 0..MaxGoals :
          /\ sessions = Tracked(s, v, k, g).sessions
          /\ events = Tracked(s, v, k, g).events
          /\ dailyStats = Tracked(s, v, k, g).dailyStats
    /\ calls = [c \in CallIds |-> IdleCall]
    /\ failures = 0
    /\ req = IdleReq
    /\ adminSessions = {}
    /\ authLog = <<>>

NextOverview ==
    \/ IdleTick
    \/ OverviewRequest

SpecOverview == InitOverview /\ [][NextOverview]_vars

\* ------------------------------------------------------------------ limit and top-N breakdowns
MaxPerKey == 2

DefaultLimit == 20
MinLimit == 1
MaxLimit == 100

\* The limit query string: absent, "", one blank, a text that is no number,
\* "Infinity", or a decimal number, held in halves: h = 3 is "1.5".
LimitHalves == {0 - 3, 0, 1, 2, 3, 4, 5, 40, 199, 200, 201, 202, 2000}
LimitStrs ==
    [k : {"absent", "empty", "blank", "garbage", "infinite"}, h : {0}]
    \cup [k : {"number"}, h : LimitHalves]

\* Number(value), in halves: NaN and Infinity are not finite, a blank is 0.
NumberOf(value) ==
    IF value.k \in {"garbage", "infinite"} THEN [finite |-> FALSE, h |-> 0]
    ELSE [finite |-> TRUE, h |-> value.h]

\* Math.trunc of a number of halves: towards zero.
MathTrunc(h) == IF h >= 0 THEN h \div 2 ELSE 0 - ((0 - h) \div 2)

MathMax(a, b) == IF a >= b THEN a ELSE b
MathMin(a, b) == IF a <= b THEN a ELSE b

\* Faulty variant of parseLimit: the parsed number is not clamped.
parseLimitUnclamped(value) ==
    IF value.k \in {"absent", "empty"} THEN DefaultLimit
    ELSE IF ~NumberOf(value).finite THEN DefaultLimit
    ELSE MathTrunc(NumberOf(value).h)

parseLimit(value) ==
    IF value.k \in {"absent", "empty"} THEN DefaultLimit
    ELSE IF ~NumberOf(value).finite THEN DefaultLimit
    ELSE MathMax(MinLimit, MathMin(MathTrunc(NumberOf(value).h), MaxLimit))

\* const safeLimit = Math.max(1, Math.min(limit, 100))
safeLimit(limit) == MathMax(MinLimit, MathMin(limit, MaxLimit))

RECURSIVE Orders(_)
Orders(keys) ==
    IF keys = {} THEN {<<>>}
    ELSE UNION {{<<k>> \o rest : rest \in Orders(keys \ {k})} : k \in keys}

\* GROUP BY ... ORDER BY count DESC over the groups `keys` with their counts
\* (count[key]):
\* the groups in an order of non-increasing count, groups of equal count in
\* whichever order the storage returns them.  The set of the answers the
\* storage can give.
OrderByCountDesc(keys, count) ==
    {o \in Orders(keys) : \A i \in 1..(Len(o) - 1) : count[o[i]] >= count[o[i + 1]]}

\* ... LIMIT n: the answer cut after n rows.
OrderByCountDescLimit(keys, count, n) ==
    {SubSeq(order, 1, MathMin(n, Len(order))) : order \in OrderByCountDesc(keys, count)}

InRange(range, date) == range.gte <= date /\ date <= range.lte

\* getReportPages: page views in range by path, with the distinct sessions.
getReportPages(ev, rangeInput, limit, clock) ==
    LET range == resolveDateRangeOrAll(rangeInput, clock)
        matching == {c \in DOMAIN ev : ev[c].type = "view" /\ InRange(range, ev[c].timestamp)}
        views(path) == Cardinality({c \in matching : ev[c].path = path})
        visitors(path) == Cardinality({ev[c].sessionId : c \in {x \in matching : ev[x].path = path}})
    IN {[i \in 1..Len(order) |->
            [key |-> order[i], count |-> views(order[i]), sessions |-> visitors(order[i])]] :
        order \in OrderByCountDescLimit({ev[c].path : c \in matching},
                  [key \in {ev[c].path : c \in matching} |-> views(key)], safeLimit(limit))}

\* COALESCE(NULLIF(s.city, ''), 'unknown')
CityOf(row) == IF row.city = NoText THEN "unknown" ELSE row.city

\* getReportCities: sessions started in range by city.
getReportCities(sess, rangeInput, limit, clock) ==
    LET range == resolveDateRangeOrAll(rangeInput, clock)
        matching == {x \in DOMAIN sess : InRange(range, sess[x].startTime)}
        count(city) == Cardinality({x \in matching : CityOf(sess[x]) = city})
    IN {[i \in 1..Len(order) |-> [key |-> order[i], count |-> count(order[i])]] :
        order \in OrderByCountDescLimit({CityOf(sess[x]) : x \in matching},
                  [key \in {CityOf(sess[x]) : x \in matching} |-> count(key)], safeLimit(limit))}

\* COALESCE(NULLIF(c.metadata->>'label', ''), NULLIF(c.element_text, ''), 'unknown')
ItemOf(row) == IF row.label = NoText THEN "unknown" ELSE row.label

\* getReportTopSetupItems: clicks of kind setup in range by item.
getReportTopSetupItems(ev, rangeInput, limit, clock) ==
    LET range == resolveDateRangeOrAll(rangeInput, clock)
        matching == {c \in DOMAIN ev : /\ ev[c].type = "click" /\ ev[c].kind = "setup"
                                       /\ InRange(range, ev[c].timestamp)}
        count(item) == Cardinality({c \in matching : ItemOf(ev[c]) = item})
    IN {[i \in 1..Len(order) |-> [key |-> order[i], count |-> count(order[i])]] :
        order \in OrderByCountDescLimit({ItemOf(ev[c]) : c \in matching},
                  [key \in {ItemOf(ev[c]) : c \in matching} |-> count(key)], safeLimit(limit))}

\* The answers of a top-N breakdown; top-links has one group here, every
\* link click carrying LinkLabel and LinkUrl.
BreakdownEndpoints == {"pages", "cities", "top-setup-items", "top-links"}
BreakdownRows(endpoint, query, limit, clock) ==
    CASE endpoint = "pages" -> getReportPages(events, query, limit, clock)
      [] endpoint = "cities" -> getReportCities(sessions, query, limit, clock)
      [] endpoint = "top-setup-items" -> getReportTopSetupItems(events, query, limit, clock)
      [] endpoint = "top-links" ->
            {[i \in 1..Len(getReportTopLinks(events, query, clock)) |->
                 [key |-> getReportTopLinks(events, query, clock)[i].label,
                  count |-> getReportTopLinks(events, query, clock)[i].clicks]]}

\* GET /api/reports/{pages,cities,top-setup-items,top-links}
BreakdownRequest ==
    /\ Quiet
    /\ req.pc = "idle"
    /\ \E endpoint \in BreakdownEndpoints : \E query \in TimedQueries : \E value \in LimitStrs :
         IF parseRangeQueryError(query)
         THEN req' = [Response(endpoint, "", query, 400, <<>>, <<>>, <<>>) EXCEPT !.limitStr = value]
         ELSE \E rows \in BreakdownRows(endpoint, query, parseLimit(value), now) :
                 req' = [Response(endpoint, "", query, 200, <<>>, <<>>, rows)
                           EXCEPT !.range = resolveDateRangeOrAll(query, now),
                                  !.meta = resolveRangeMeta(query, now),
                                  !.limit = parseLimit(value),
                                  !.limitStr = value]
    /\ UNCHANGED <<now, sessions, events, dailyStats, calls, failures, adminSessions, authLog>>

\* The pages, cities and setup items of the visitors of this part.
BreakdownKeys == 1..3
Paths == <<DefaultPath, "/setup", "/links">>
Cities == <<NoText, "Lisbon", "Porto">>
SetupItems == <<"Keyboard", "Monitor", "Chair">>

\* The storage after n[k] visitors of each key k: each was tracked as a new
\* session of city Cities[k] and then viewed the page Paths[k], clicked a
\* link and clicked the setup item SetupItems[k], all on day 0 by requests
\* that are over.  Visitor j of key k has session id (k - 1) * MaxPerKey + j.
Visitors(n) == {<<k, j>> : k \in BreakdownKeys, j \in 1..MaxPerKey} \cap
               {v \in BreakdownKeys \X (1..MaxPerKey) : v[2] <= n[v[1]]}
VisitorId(v) == (v[1] - 1) * MaxPerKey + v[2]
Visited(n) ==
    LET ids == {VisitorId(v) : v \in Visitors(n)}
        keyOf(id) == ((id - 1) \div MaxPerKey) + 1
        total == Cardinality(ids)
    IN [sessions |-> [id \in ids |->
                        [startTime |-> 0, lastPingTime |-> 0, duration |-> 0,
                         deviceType |-> NoText, userAgent |-> NoWords, city |-> Cities[keyOf(id)]]],
        events |-> [e \in UNION {{3 * id - 2, 3 * id - 1, 3 * id} : id \in ids} |->
                      LET id == (e + 2) \div 3
                      IN IF e = 3 * id - 2
                         THEN [type |-> "view", sessionId |-> id, timestamp |-> 0, kind |-> "",
                               path |-> Paths[keyOf(id)], label |-> NoText]
                         ELSE IF e = 3 * id - 1
                         THEN [type |-> "click", sessionId |-> id, timestamp |-> 0, kind |-> "social",
                               path |-> NoText, label |-> LinkLabel]
                         ELSE [type |-> "click", sessionId |-> id, timestamp |-> 0, kind |-> "setup",
                               path |-> NoText, label |-> SetupItems[keyOf(id)]]],
        dailyStats |-> IF total = 0 THEN <<>>
                       ELSE 0 :> [sessions |-> total, pageViews |-> total, pings |-> 0,
                                  clicks |-> 2 * total, goals |-> 0]]

InitBreakdown ==
    /\ now = 0
    /\ \E n \in [BreakdownKeys -> 0..MaxPerKey] :
          /\ sessions = Visited(n).sessions
          /\ events = Visited(n).events
          /\ dailyStats = Visited(n).dailyStats
    /\ calls = [c \in CallIds |-> IdleCall]
    /\ failures = 0
    /\ req = IdleReq
    /\ adminSessions = {}
    /\ authLog = <<>>

NextBreakdown ==
    \/ IdleTick
    \/ BreakdownRequest

SpecBreakdown == InitBreakdown /\ [][NextBreakdown]_vars

\* ------------------------------------------------------------------ devices
MaxDeviceSessions == 2

\* The device types and user agents the sessions of this part were tracked
\* with; a user agent is held as its words, NoWords being NULL or ''.
DeviceTypes == {NoText, "Mobile", "tv"}
UserAgents ==
    {NoWords,
     <<"Mozilla", "iPad", "Mobile">>,
     <<"Mozilla", "iPhone", "Mobile">>,
     <<"Mozilla", "Android", "Tablet">>,
     <<"Mozilla", "Android">>,
     <<"Mozilla", "Windows">>}

\* LOWER(), on the words that occur.
Lower(word) ==
    CASE word = "Mobile" -> "mobile"
      [] word = "iPad" -> "ipad"
      [] word = "iPhone" -> "iphone"
      [] word = "Android" -> "android"
      [] word = "Tablet" -> "tablet"
      [] word = "Mozilla" -> "mozilla"
      [] word = "Windows" -> "windows"
      [] OTHER -> word

\* text ILIKE '%pattern%', pattern a lower-case word
ILike(words, pattern) == \E i \in 1..Len(words) : Lower(words[i]) = pattern

\* Faulty variant of deviceOf: the mobile patterns are tried before the
\* tablet patterns.
deviceOfMobileFirst(row) ==
    IF row.deviceType # NoText THEN Lower(row.deviceType)
    ELSE IF row.userAgent = NoWords THEN "unknown"
    ELSE IF \/ ILike(row.userAgent, "mobile") \/ ILike(row.userAgent, "android")
            \/ ILike(row.userAgent, "iphone") THEN "mobile"
    ELSE IF ILike(row.userAgent, "ipad") \/ ILike(row.userAgent, "tablet") THEN "tablet"
    ELSE "desktop"

\* The CASE expression of getReportDevices.
deviceOf(row) ==
    IF row.deviceType # NoText THEN Lower(row.deviceType)
    ELSE IF row.userAgent = NoWords THEN "unknown"
    ELSE IF ILike(row.userAgent, "ipad") \/ ILike(row.userAgent, "tablet") THEN "tablet"
    ELSE IF \/ ILike(row.userAgent, "mobile") \/ ILike(row.userAgent, "android")
            \/ ILike(row.userAgent, "iphone") THEN "mobile"
    ELSE "desktop"

\* getReportDevices: sessions started in range by device, no LIMIT.
getReportDevices(sess, rangeInput, clock) ==
    LET range == resolveDateRangeOrAll(rangeInput, clock)
        matching == {x \in DOMAIN sess : InRange(range, sess[x].startTime)}
        count(device) == Cardinality({x \in matching : deviceOf(sess[x]) = device})
    IN {[i \in 1..Len(order) |-> [device |-> order[i], sessions |-> count(order[i])]] :
        order \in OrderByCountDesc({deviceOf(sess[x]) : x \in matching},
                  [key \in {deviceOf(sess[x]) : x \in matching} |-> count(key)])}

\* GET /api/reports/devices
DevicesRequest ==
    /\ Quiet
    /\ req.pc = "idle"
    /\ \E query \in TimedQueries :
         IF parseRangeQueryError(query)
         THEN req' = Response("devices", "", query, 400, <<>>, <<>>, <<>>)
         ELSE \E rows \in getReportDevices(sessions, query, now) :
                 req' = [Response("devices", "", query, 200, <<>>, <<>>, rows)
                           EXCEPT !.range = resolveDateRangeOrAll(query, now),
                                  !.meta = resolveRangeMeta(query, now)]
    /\ UNCHANGED <<now, sessions, events, dailyStats, calls, failures, adminSessions, authLog>>

\* The storage after trackSession calls for new sessions 1..k, each with a
\* deviceType, a userAgent and a startTime (midnight of day 0 or day 1) in
\* its payload, completed by requests that are over.
StartDays == {0, 1}
InitDevices ==
    /\ now = 0
    /\ \E k \in 0..MaxDeviceSessions :
       \E types \in [1..k -> DeviceTypes] : \E agents \in [1..k -> UserAgents] :
       \E days \in [1..k -> StartDays] :
          /\ sessions = [id \in 1..k |->
                            [startTime |-> days[id] * TicksPerDay,
                             lastPingTime |-> days[id] * TicksPerDay, duration |-> 0,
                             deviceType |-> types[id], userAgent |-> agents[id], city |-> NoText]]
          /\ dailyStats = [date \in {days[id] * TicksPerDay : id \in 1..k} |->
                              [m \in Metrics |->
                                  IF m = "sessions"
                                  THEN Cardinality({id \in 1..k : days[id] * TicksPerDay = date})
                                  ELSE 0]]
    /\ events = <<>>
    /\ calls = [c \in CallIds |-> IdleCall]
    /\ failures = 0
    /\ req = IdleReq
    /\ adminSessions = {}
    /\ authLog = <<>>

NextDevices ==
    \/ IdleTick
    \/ DevicesRequest

SpecDevices == InitDevices /\ [][NextDevices]_vars

\* ------------------------------------------------------------------ claims
Counter(date, metric) ==
    IF date \in DOMAIN dailyStats THEN dailyStats[date][metric] ELSE 0

\* The stored events of one track operation whose timestamp falls on a date.
EventsOn(op, date) ==
    {c \in DOMAIN events : events[c].type = op /\ toUtcDateOnly(events[c].timestamp) = date}

\* The Session rows whose startTime falls on a date.
SessionsOn(date) ==
    {s \in DOMAIN sessions : toUtcDateOnly(sessions[s].startTime) = date}

\* Every call made so far has completed: none is in flight, none has failed.
AllCompleted == \A c \in CallIds : calls[c].pc \in {"idle", "done"}

\* The calls whose rollup increment of a metric on a date has completed.
Incremented(metric, date) ==
    {c \in CallIds : /\ calls[c].pc = "done"
                     /\ MetricOf(calls[c].op) = metric
                     /\ (calls[c].op = "session" => calls[c].created)
                     /\ toUtcDateOnly(IncrementAt(calls[c])) = date}

OneDay(date) ==
    [period |-> "custom", from |-> DateStr(date \div TicksPerDay), to |-> DateStr(date \div TicksPerDay)]

EventOps == Ops \ {"session"}

\* C1: once every track call made has completed, for every UTC day D and each
\* of pageViews, pings, clicks, goals, the rollup sum over [D, D] equals the
\* number of stored events of that type timestamped on day D.
C1_RollupEqualsEvents ==
    AllCompleted =>
        \A date \in Dates : \A op \in EventOps :
            getCount(dailyStats, MetricOf(op), OneDay(date), now) = Cardinality(EventsOn(op, date))

\* C1 witness: two completed calls of one type on the same day, counted as 2.
C1_Witness ==
    /\ AllCompleted
    /\ \E date \in Dates :
          /\ Cardinality(EventsOn("view", date)) = 2
          /\ getCount(dailyStats, "pageViews", OneDay(date), now) = 2
          /\ \E c \in EventsOn("view", date) : events[c].timestamp # date

\* C2 (as claimed): once every track call made has completed, the sessions
\* counter of every day D equals the number of Session rows created with a
\* startTime on day D, whichever operation created them.
C2_SessionsCounterCountsCreated ==
    AllCompleted =>
        \A date \in Dates : Counter(date, "sessions") = Cardinality(SessionsOn(date))

\* C3: for each session id at most one call creates the session, the sessions
\* counters count exactly the completed trackSession calls that created their
\* session, and a call that found the session existing (a later trackSession,
\* or the ensureSession of a view, ping, click or goal) never holds "created".
C3_OnlyCreatingTrackSessionIncrements ==
    /\ \A s \in DOMAIN sessions :
          Cardinality({c \in CallIds : calls[c].sessionId = s /\ calls[c].created}) <= 1
    /\ \A c \in CallIds :
          calls[c].created =>
              /\ calls[c].sessionId \in DOMAIN sessions
              /\ sessions[calls[c].sessionId].startTime = calls[c].startTime
    /\ \A date \in Dates :
          Counter(date, "sessions") =
              Cardinality({c \in CallIds : /\ calls[c].op = "session"
                                           /\ calls[c].created
                                           /\ calls[c].pc = "done"
                                           /\ toUtcDateOnly(calls[c].startTime) = date})

\* C3 witness: two completed trackSession calls of one session id, the first
\* created it, the second did not, and the sessions counters total 1.
C3_Witness ==
    \E c1, c2 \in CallIds :
        /\ c1 # c2
        /\ calls[c1].op = "session" /\ calls[c2].op = "session"
        /\ calls[c1].pc = "done" /\ calls[c2].pc = "done"
        /\ calls[c1].sessionId = calls[c2].sessionId
        /\ calls[c1].created /\ ~calls[c2].created
        /\ SumOver(dailyStats, DOMAIN dailyStats, "sessions") = 1

\* C4 (as claimed): a track call that failed has left none of its writes
\* applied: no event row of it is stored and no session it created remains.
C4_AllOrNothing ==
    \A c \in CallIds :
        calls[c].pc = "failed" => (c \notin DOMAIN events /\ ~calls[c].created)

\* C5: in every interleaving each counter equals the number of calls whose
\* increment of that metric on that day has completed, and no call fails at
\* its rollup increment unless the storage itself failed.
C5_NoLostIncrement ==
    /\ \A date \in Dates : \A metric \in Metrics :
          Counter(date, metric) = Cardinality(Incremented(metric, date))
    /\ \A c \in CallIds :
          (calls[c].pc = "failed" /\ calls[c].err # "storage") =>
              (c \notin DOMAIN events /\ ~calls[c].created)

\* C5 witness: two calls were waiting for their increment of the same metric
\* of the same day at the same time.
C5_RaceWitness ==
    \E c1, c2 \in CallIds :
        /\ c1 # c2
        /\ calls[c1].pc = "inc" /\ calls[c2].pc = "inc"
        /\ calls[c1].op = calls[c2].op
        /\ toUtcDateOnly(IncrementAt(calls[c1])) = toUtcDateOnly(IncrementAt(calls[c2]))

\* A custom range that is no range: from missing, from not a timestamp, or
\* from later than to (to is the clock when it is missing or no timestamp).
InvalidCustom(query, clock) ==
    /\ query.period = "custom"
    /\ \/ query.from.k \in {"absent", "garbage"}
       \/ query.from.d * TicksPerDay >
             (IF query.to.k = "date" THEN query.to.d * TicksPerDay ELSE clock)

\* C6 (as claimed): a request with period=custom whose from is missing, not a
\* timestamp, or later than to is answered with 400, never with data.
C6_InvalidCustomRejected ==
    (req.pc = "responded" /\ req.endpoint = "count" /\ InvalidCustom(req.query, now))
        => req.status = 400

\* The link clicks (kind social or link-card) stored with a timestamp on a date.
LinkClicksOn(date) ==
    {c \in EventsOn("click", date) : events[c].kind \in {"social", "link-card"}}

\* C7 (as claimed): top-links with period=custom, from=D, to=D (date-only)
\* returns the row counting every link click tracked at any time of day D.
C7_TopLinksCoverWholeDay ==
    (/\ req.pc = "responded" /\ req.endpoint = "top-links" /\ req.status = 200
     /\ req.query.period = "custom"
     /\ req.query.from.k = "date" /\ req.query.to = req.query.from)
        => LET clicks == LinkClicksOn(req.query.from.d * TicksPerDay)
           IN req.rows = IF clicks = {} THEN <<>>
                         ELSE <<[label |-> LinkLabel, url |-> LinkUrl, clicks |-> Cardinality(clicks)]>>

\* The sum of a counter over the rollup rows of the days first..last.
DaysTotal(metric, first, last) ==
    SumOver(dailyStats,
            {d \in DOMAIN dailyStats : first <= d \div TicksPerDay /\ d \div TicksPerDay <= last},
            metric)

C9_OneIntervalPerRequest ==
    (req.pc = "responded" /\ req.endpoint = "summary" /\ req.status = 200) =>
        \A i, j \in 1..Len(req.wheres) : req.wheres[i] = req.wheres[j]

\* A step that answers the timeseries request already answered once more.
IsReplay ==
    /\ req.endpoint = "timeseries" /\ req.status = 200
    /\ req'.endpoint = "timeseries" /\ req'.status = 200
    /\ req'.query = req.query /\ req'.metric = req.metric
    /\ req'.served = req.served + 1
    /\ UNCHANGED <<sessions, events, dailyStats>>

\* C10 (as claimed): a replay of the timeseries request against unchanged
\* storage returns identical points, for every period.
C10_ReplayIdentical == [][IsReplay => req'.rows = req.rows]_vars

\* C10 (amended): the replay returns identical points when the period is
\* absent or custom with a parsable to, and for every period whenever both
\* requests resolve to the same UTC-day range.
C10_ReplayIdenticalOnSameRange ==
    [][IsReplay =>
         ((\/ req.query.period = ""
           \/ (req.query.period = "custom" /\ req.query.to.k = "date")
           \/ req'.wheres = req.wheres)
          => req'.rows = req.rows)]_vars

\* C10 witness: a custom range with both dates was replayed after the clock
\* had moved to another day, and returned points.
C10_Witness ==
    /\ req.endpoint = "timeseries" /\ req.status = 200 /\ req.served = 2
    /\ req.query.period = "custom" /\ req.query.to.k = "date"
    /\ req.rows # <<>>
    /\ now \div TicksPerDay > 0

\* C11: a track request is answered {success: true} only when its recorder
\* call has completed without failure and with 500 whenever the recorder call
\* failed; a request that has been answered takes no further step, so a
\* failed recorder call is never retried.
C11_TrackReply ==
    /\ [](\A c \in CallIds :
            /\ calls[c].status \in {0, 200, 500}
            /\ calls[c].status = 200 <=> calls[c].pc = "done"
            /\ calls[c].status = 500 <=> calls[c].pc = "failed")
    /\ [][\A c \in CallIds : calls[c].status # 0 => calls'[c] = calls[c]]_vars

\* C11 witness: one request was answered 500 after a storage failure that
\* left its event row stored, another was answered {success: true}.
C11_Witness ==
    \E c1, c2 \in CallIds :
        /\ calls[c1].status = 500 /\ calls[c1].err = "storage" /\ c1 \in DOMAIN events
        /\ calls[c2].status = 200

\* C19: no step removes a Session row or changes the startTime stored under
\* its id, whatever startTime or timestamp the payloads of later calls carry.
C19_SessionIdentityKept ==
    [][\A s \in DOMAIN sessions :
          /\ s \in DOMAIN sessions'
          /\ sessions'[s].startTime = sessions[s].startTime]_vars

\* C19 witness: a ping on an existing session has completed (ensureSession's
\* update and the ping's own update ran) whose payload resolved to a startTime
\* other than the stored one.
C19_Witness ==
    \E c \in CallIds :
        /\ calls[c].pc = "done" /\ calls[c].op = "ping" /\ ~calls[c].created
        /\ calls[c].sessionId \in DOMAIN sessions
        /\ calls[c].startTime # sessions[calls[c].sessionId].startTime

\* C20 (as claimed): the stored duration of a session changes only by a call
\* whose payload reports a duration, and then to the reported value; a call
\* that carries no duration leaves it unchanged.
C20_DurationKeptWithoutReport ==
    [][\A s \in DOMAIN sessions :
          (s \in DOMAIN sessions' /\ sessions'[s].duration # sessions[s].duration) =>
              \E c \in CallIds :
                  /\ calls'[c] # calls[c]
                  /\ calls[c].sessionId = s
                  /\ asNumber(calls[c].payload.duration).ok
                  /\ sessions'[s].duration = asNumber(calls[c].payload.duration).n]_vars

\* C16 (as claimed): the period, from and to echoed by a timeseries response
\* describe the interval the query used: period is "all" exactly when the
\* query ran unbounded, and otherwise from and to are the UTC dates of the
\* gte and lte applied to storage.
C16_EchoDescribesInterval ==
    (req.pc = "responded" /\ req.endpoint = "timeseries" /\ req.status = 200) =>
        /\ req.meta.period = "all" <=> ~req.range.bounded
        /\ req.range.bounded =>
              /\ req.meta.from = req.range.gte \div TicksPerDay
              /\ req.meta.to = req.range.lte \div TicksPerDay

\* C17: the interval resolveDateRange returned for a count request, against
\* the clock of the request: none without a period; [now - 1 day, now] for
\* day and [now - 7 days, now] for week; gte <= lte for every interval
\* returned; and for custom with a parsable from and an absent or unparsable
\* to, the interval returned is [from, now].
C17_ResolvedInterval ==
    (req.pc = "responded" /\ req.endpoint = "count" /\ req.status = 200) =>
        LET q == req.query
            r == req.range
        IN /\ q.period = "" => ~r.bounded
           /\ q.period = "day" => r = Range(now - TicksPerDay, now)
           /\ q.period = "week" => r = Range(now - 7 * TicksPerDay, now)
           /\ r.bounded => r.gte <= r.lte
           /\ (q.period = "custom" /\ q.from.k = "date" /\ q.to.k \in {"absent", "garbage"}) =>
                 /\ r.bounded <=> q.from.d * TicksPerDay <= now
                 /\ r.bounded => r = Range(q.from.d * TicksPerDay, now)

\* C17 witness: a custom range with a date as from and a to that is no
\* timestamp was resolved after midnight, to an interval that ends now.
C17_Witness ==
    /\ req.pc = "responded" /\ req.endpoint = "count" /\ req.status = 200
    /\ req.query.period = "custom" /\ req.query.from.k = "date" /\ req.query.to.k = "garbage"
    /\ req.range.bounded /\ req.range.lte = now
    /\ now % TicksPerDay # 0 /\ req.range.gte < now

\* The rollup rows a timeseries response has to show: those whose date lies
\* between the UTC dates of the bounds resolved for it, all rows without bounds.
SeriesDays ==
    {d \in DOMAIN dailyStats :
        \/ ~req.range.bounded
        \/ /\ (req.range.gte \div TicksPerDay) * TicksPerDay <= d
           /\ d <= (req.range.lte \div TicksPerDay) * TicksPerDay}

\* C18: a timeseries response has exactly one point per rollup row of the
\* day-truncated range, in strictly ascending date order, each with the
\* selected counter of its row as value, or with the five counters of its row.
C18_TimeseriesPoints ==
    (req.pc = "responded" /\ req.endpoint = "timeseries" /\ req.status = 200) =>
        /\ Len(req.rows) = Cardinality(SeriesDays)
        /\ {req.rows[i].date : i \in 1..Len(req.rows)} = {d \div TicksPerDay : d \in SeriesDays}
        /\ \A i, j \in 1..Len(req.rows) : i < j => req.rows[i].date < req.rows[j].date
        /\ \A i \in 1..Len(req.rows) :
              LET row == dailyStats[req.rows[i].date * TicksPerDay]
              IN IF req.metric \in Metrics
                 THEN req.rows[i].value = row[req.metric]
                 ELSE /\ Len(req.rows[i].counters) = Cardinality(Metrics)
                      /\ \A k \in 1..Len(MetricOrder) :
                            req.rows[i].counters[k] = row[MetricOrder[k]]

\* C18 witness: a bounded request for the page views was answered with the
\* points of two days, the first of them counting one page view.
C18_Witness ==
    /\ req.pc = "responded" /\ req.endpoint = "timeseries" /\ req.status = 200
    /\ req.metric = "pageViews" /\ req.range.bounded
    /\ Len(req.rows) = 2
    /\ req.rows[1].value = 1

\* A token was issued by a successful login and no logout with it has been
\* answered since.
IssuedAndNotRevoked(t) ==
    \E i \in 1..Len(authLog) :
        /\ authLog[i].op = "login" /\ authLog[i].status = 200 /\ authLog[i].token = t
        /\ \A j \in (i + 1)..Len(authLog) :
              ~(authLog[j].op = "logout" /\ authLog[j].token = t)

\* C14: after any sequence of logins and logouts, verifyAdminToken(t) is true
\* exactly for the tokens issued by a successful login and not logged out
\* since (so revoking one token leaves the others valid), and every logout,
\* also of an unknown or revoked token, was answered {success: true}.
C14_TokenLifecycle ==
    /\ \A t \in 0..MaxAuthOps :
          verifyAdminToken(adminSessions, t) <=> IssuedAndNotRevoked(t)
    /\ \A i \in 1..Len(authLog) : authLog[i].op = "logout" => authLog[i].status = 200

\* C14 witness: two tokens were issued, one of them was logged out twice and
\* is invalid, the other is still valid.
C14_Witness ==
    \E t1, t2 \in IssuedTokens :
        /\ t1 # t2
        /\ ~verifyAdminToken(adminSessions, t1) /\ verifyAdminToken(adminSessions, t2)
        /\ Cardinality({i \in 1..Len(authLog) :
                            authLog[i].op = "logout" /\ authLog[i].token = t1}) = 2

\* C12 (as claimed): every read request is eventually answered (at the latest
\* with 504 when its timer fires).
C12_EveryRequestAnswered == (req.pc # "idle") ~> (req.pc = "responded")

C15_Ratios ==
    (req.pc = "responded" /\ req.endpoint = "overview" /\ req.status = 200) =>
        LET t == req.overview.totals
            e == req.overview.engagement
            Near(rate, num, den) ==
                /\ 2 * (rate * den - RateScale * num) <= den
                /\ 2 * (RateScale * num - rate * den) <= den
        IN /\ e.clickThroughRate \in Nat /\ e.goalsPerSession \in Nat
           /\ t["pageViews"] = 0 => e.clickThroughRate = 0
           /\ t["pageViews"] > 0 => Near(e.clickThroughRate, t["clicks"], t["pageViews"])
           /\ (t["clicks"] = 5 /\ t["pageViews"] = 20) => e.clickThroughRate * 4 = RateScale
           /\ t["sessions"] = 0 => e.goalsPerSession = 0
           /\ t["sessions"] > 0 => Near(e.goalsPerSession, t["goals"], t["sessions"])

\* C15 witness: an overview of 5 clicks over 20 page views and of goals
\* without any session: 0.25 and 0.
C15_Witness ==
    /\ req.pc = "responded" /\ req.endpoint = "overview" /\ req.status = 200
    /\ req.overview.totals["clicks"] = 5 /\ req.overview.totals["pageViews"] = 20
    /\ req.overview.totals["sessions"] = 0 /\ req.overview.totals["goals"] > 0
    /\ req.overview.engagement.clickThroughRate = 2500
    /\ req.overview.engagement.goalsPerSession = 0

\* C21: the step that completes a trackPing call leaves the session with the
\* timestamp of the stored ping (the payload's timestamp when it carries one)
\* as lastPingTime and with the payload's duration (0 when it carries none)
\* as duration, whatever the session held before.
C21_PingOverwrites ==
    [][\A c \in CallIds :
          (calls[c].op = "ping" /\ calls[c].pc # "done" /\ calls'[c].pc = "done") =>
              LET s == sessions'[calls[c].sessionId]
                  p == calls[c].payload
              IN /\ s.lastPingTime = events'[c].timestamp
                 /\ asDate(p.timestamp).ok => s.lastPingTime = asDate(p.timestamp).t
                 /\ s.duration = IF p.duration = NoNumber THEN 0 ELSE p.duration]_vars

\* C21 witness: a ping without a duration and with an older timestamp has
\* completed after a call that had stored a later lastPingTime and a larger
\* duration; the session holds the ping's values.
C21_Witness ==
    \E c1, c2 \in CallIds :
        /\ c1 < c2
        /\ calls[c1].pc = "done" /\ calls[c2].pc = "done" /\ calls[c2].op = "ping"
        /\ calls[c1].sessionId = calls[c2].sessionId
        /\ calls[c1].lastPingTime > calls[c2].timestamp
        /\ calls[c1].duration > 0 /\ calls[c2].payload.duration = NoNumber
        /\ sessions[calls[c2].sessionId].lastPingTime = calls[c2].timestamp
        /\ sessions[calls[c2].sessionId].duration = 0

\* C22: no step of a trackGoal call whose payload has no session id changes
\* the sessions table or a counter other than goals; it adds no row but its
\* own goal row and changes no stored row; and the step that completes it
\* leaves that one row stored with no session reference and the goals counter
\* of the UTC day of the row's timestamp one higher, the only counter changed
\* by the call.
C22_AnonymousGoal ==
    [][\A c \in CallIds :
          (/\ calls'[c] # calls[c]
           /\ calls'[c].op = "goal" /\ calls'[c].payload.sessionId = NoId) =>
              /\ sessions' = sessions
              /\ DOMAIN events' \subseteq DOMAIN events \cup {c}
              /\ \A e \in DOMAIN events : events'[e] = events[e]
              /\ DOMAIN dailyStats \subseteq DOMAIN dailyStats'
              /\ \A d \in DOMAIN dailyStats' : \A m \in Metrics \ {"goals"} :
                    dailyStats'[d][m] = IF d \in DOMAIN dailyStats THEN dailyStats[d][m] ELSE 0
              /\ IF calls'[c].pc = "done"
                 THEN /\ events' = events /\ c \in DOMAIN events
                      /\ events[c].type = "goal" /\ events[c].sessionId = NoId
                      /\ asDate(calls[c].payload.timestamp).ok =>
                            events[c].timestamp = asDate(calls[c].payload.timestamp).t
                      /\ \A d \in DOMAIN dailyStats' :
                            dailyStats'[d]["goals"] =
                                (IF d \in DOMAIN dailyStats THEN dailyStats[d]["goals"] ELSE 0)
                                + (IF d = toUtcDateOnly(events[c].timestamp) THEN 1 ELSE 0)
                      /\ toUtcDateOnly(events[c].timestamp) \in DOMAIN dailyStats'
                 ELSE dailyStats' = dailyStats]_vars

\* C22 witness: a goal without a session id has completed after a trackSession
\* call: one session, one sessions count, one goal row without session, one
\* goals count.
C22_Witness ==
    \E c1, c2 \in CallIds :
        /\ calls[c1].op = "session" /\ calls[c1].pc = "done"
        /\ calls[c2].op = "goal" /\ calls[c2].pc = "done" /\ calls[c2].payload.sessionId = NoId
        /\ Cardinality(DOMAIN sessions) = 1
        /\ SumOver(dailyStats, DOMAIN dailyStats, "sessions") = 1
        /\ events[c2].sessionId = NoId
        /\ SumOver(dailyStats, DOMAIN dailyStats, "goals") = 1
        /\ DOMAIN events = {c2}

\* C27: in every state, also with calls in flight or failed part-way, each
\* pageViews, pings, clicks and goals counter of a day is at most the number
\* of stored events of that type timestamped on that day, and the sessions
\* counters together are at most the number of Session rows.
C27_RollupAtMostRaw ==
    /\ \A date \in DOMAIN dailyStats : \A op \in EventOps :
          dailyStats[date][MetricOf(op)] <= Cardinality(EventsOn(op, date))
    /\ SumOver(dailyStats, DOMAIN dailyStats, "sessions") <= Cardinality(DOMAIN sessions)

\* C27 witness: a call failed after its event row was stored while another
\* call of the same type on the same day completed: the counter is below the
\* raw count, and a session exists that no counter counts.
C27_Witness ==
    \E c1, c2 \in CallIds :
        /\ calls[c1].pc = "failed" /\ c1 \in DOMAIN events
        /\ calls[c2].pc = "done" /\ calls[c2].op = calls[c1].op
        /\ LET date == toUtcDateOnly(events[c1].timestamp)
           IN /\ date \in DOMAIN dailyStats
              /\ dailyStats[date][MetricOf(calls[c1].op)] = 1
              /\ Cardinality(EventsOn(calls[c1].op, date)) = 2
        /\ SumOver(dailyStats, DOMAIN dailyStats, "sessions") < Cardinality(DOMAIN sessions)

\* C28: of the calls that reference one session id at most one creates the
\* session, whatever their interleaving, and the sessions counters count at
\* most one increment for it; a call whose session.create is rejected by the
\* primary key has failed, holds no "created", has stored no event row and
\* has incremented no counter.
C28_OneSessionPerId ==
    /\ \A s \in DOMAIN sessions :
          /\ Cardinality({c \in CallIds : calls[c].sessionId = s /\ calls[c].created}) <= 1
          /\ Cardinality({c \in CallIds : /\ calls[c].sessionId = s /\ calls[c].op = "session"
                                           /\ calls[c].pc = "done" /\ calls[c].created}) <= 1
    /\ SumOver(dailyStats, DOMAIN dailyStats, "sessions") =
          Cardinality({c \in CallIds : calls[c].op = "session" /\ calls[c].pc = "done" /\ calls[c].created})
    /\ \A c \in CallIds :
          calls[c].err = "P2002" =>
              /\ calls[c].pc = "failed" /\ ~calls[c].created
              /\ calls[c].sessionId \in DOMAIN sessions
              /\ c \notin DOMAIN events
              /\ \A date \in DOMAIN dailyStats : \A m \in Metrics :
                    dailyStats[date][m] = Cardinality(Incremented(m, date) \ {c})

\* C28 witness: two trackSession calls of one unseen session id ran
\* concurrently; one created the session and completed, the other lost the
\* race and failed; one row, one sessions count.
C28_Witness ==
    \E c1, c2 \in CallIds :
        /\ calls[c1].op = "session" /\ calls[c2].op = "session"
        /\ calls[c1].sessionId = calls[c2].sessionId
        /\ calls[c1].pc = "done" /\ calls[c1].created
        /\ calls[c2].pc = "failed" /\ calls[c2].err = "P2002"
        /\ DOMAIN sessions = {calls[c1].sessionId}
        /\ SumOver(dailyStats, DOMAIN dailyStats, "sessions") = 1

\* C29: every stored page view, ping and click row references a stored
\* session, every goal row references a stored session or none, no insert of
\* an event row is rejected by the foreign key, and no step removes a session.
C29_ReferentialIntegrity ==
    /\ [](\A c \in CallIds :
            /\ calls[c].err # "P2003"
            /\ c \in DOMAIN events =>
                  IF events[c].type = "goal"
                  THEN events[c].sessionId = NoId \/ events[c].sessionId \in DOMAIN sessions
                  ELSE events[c].sessionId # NoId /\ events[c].sessionId \in DOMAIN sessions)
    /\ [][DOMAIN sessions \subseteq DOMAIN sessions']_vars

\* C29 witness: a goal row that references a session, a page view row that
\* references a session the server named itself (randomUUID).
C29_Witness ==
    \E c1, c2 \in DOMAIN events :
        /\ events[c1].type = "goal" /\ events[c1].sessionId \in ClientIds
        /\ events[c2].type = "view" /\ events[c2].sessionId = randomUUID(c2)
        /\ {events[c1].sessionId, events[c2].sessionId} \subseteq DOMAIN sessions

\* C30: every step that changes the rollup changes one counter of one date
\* row by +1 and nothing else of it, or creates one row with one counter at 1
\* and the other four at 0; every counter is a natural number, every row is
\* keyed by a UTC date and holds an increment that some completed call made
\* at that date.
C30_IncrementFrame ==
    /\ [](\A d \in DOMAIN dailyStats :
            /\ d = toUtcDateOnly(d)
            /\ \A m \in Metrics : dailyStats[d][m] \in Nat
            /\ \E m \in Metrics : dailyStats[d][m] >= 1 /\ Incremented(m, d) # {})
    /\ [][dailyStats' # dailyStats =>
            \E d \in DOMAIN dailyStats' : \E metric \in Metrics :
                /\ DOMAIN dailyStats' = DOMAIN dailyStats \cup {d}
                /\ \A e \in DOMAIN dailyStats \ {d} : dailyStats'[e] = dailyStats[e]
                /\ \A m \in Metrics :
                      dailyStats'[d][m] =
                          (IF d \in DOMAIN dailyStats THEN dailyStats[d][m] ELSE 0)
                          + (IF m = metric THEN 1 ELSE 0)]_vars

\* C30 witness: a second increment on a date raised another counter than the
\* one the row was created for, on a day later than day 0.
C30_Witness ==
    \E d \in DOMAIN dailyStats :
        /\ d > 0
        /\ dailyStats[d]["pageViews"] = 1 /\ dailyStats[d]["goals"] = 1
        /\ \A m \in Metrics \ {"pageViews", "goals"} : dailyStats[d][m] = 0

\* The request names a period that is not allowed, or it is a timeseries
\* request that names a metric that is none.
NamesInvalid(r) ==
    \/ (r.query.period # "" /\ r.query.period \notin AllowedPeriods)
    \/ (r.endpoint = "timeseries" /\ r.metric # "" /\ r.metric \notin Metrics)

\* C25 (as claimed): a stats or reports request that names a period that is
\* not allowed, or a timeseries request that names a metric that is none, is
\* answered with 400, and no query on the rollup or the event tables was made
\* for it.
C25_InvalidRejected ==
    (req.pc = "responded" /\ NamesInvalid(req)) =>
        /\ req.status = 400
        /\ req.wheres = <<>> /\ req.totals = <<>> /\ req.rows = <<>>
        /\ req.work = "none"

\* The rows the calls have written, as the calls alone determine them.
WrittenByCalls ==
    /\ \A date \in Dates : \A metric \in Metrics :
          Counter(date, metric) = Cardinality(Incremented(metric, date))
    /\ DOMAIN dailyStats \subseteq Dates
    /\ \A c \in DOMAIN events :
          /\ c \in CallIds
          /\ events[c].type = calls[c].op /\ events[c].sessionId = calls[c].sessionId
          /\ events[c].timestamp = calls[c].timestamp /\ events[c].kind = calls[c].payload.kind
    /\ \A s \in DOMAIN sessions : \E c \in CallIds : calls[c].sessionId = s

\* C26: a step of a read request (arrival, query settling, timeout) changes
\* no session, event, rollup or admin session row, also while track calls are
\* between their awaits; and in every state the stored rows are the ones the
\* track calls wrote, whatever reads were made in between.
C26_ReadsChangeNothing ==
    /\ [][req' # req =>
            /\ sessions' = sessions /\ events' = events
            /\ dailyStats' = dailyStats /\ adminSessions' = adminSessions]_vars
    /\ []WrittenByCalls

\* C26 witness: a count was answered from the rollup while a track call was
\* between its event insert and its rollup increment.
C26_Witness ==
    /\ req.pc = "responded" /\ req.status = 200 /\ req.endpoint = "count"
    /\ req.metric = "pageViews" /\ req.totals = <<1>>
    /\ \E c \in CallIds : calls[c].pc = "inc" /\ calls[c].op = "view"
    /\ Cardinality({c \in DOMAIN events : events[c].type = "view"}) = 2

\* The stored rows of one group of a breakdown within a range: the page views
\* of a path, the sessions of a city, the setup clicks of an item, the link
\* clicks.
GroupRows(endpoint, key, range) ==
    CASE endpoint = "pages" ->
            {c \in DOMAIN events : /\ events[c].type = "view" /\ events[c].path = key
                                   /\ InRange(range, events[c].timestamp)}
      [] endpoint = "cities" ->
            {x \in DOMAIN sessions :
                /\ (IF key = "unknown" THEN sessions[x].city \in {NoText, "unknown"}
                                       ELSE sessions[x].city = key)
                /\ InRange(range, sessions[x].startTime)}
      [] endpoint = "top-setup-items" ->
            {c \in DOMAIN events : /\ events[c].type = "click" /\ events[c].kind = "setup"
                                   /\ events[c].label = key
                                   /\ InRange(range, events[c].timestamp)}
      [] endpoint = "top-links" ->
            {c \in DOMAIN events : /\ events[c].type = "click"
                                   /\ events[c].kind \in {"social", "link-card"}
                                   /\ events[c].label = key
                                   /\ InRange(range, events[c].timestamp)}

\* The names a group can be returned under; a session without city is
\* returned under "unknown".
BreakdownGroups ==
    ({Paths[k] : k \in BreakdownKeys} \cup {Cities[k] : k \in BreakdownKeys}
     \cup {SetupItems[k] : k \in BreakdownKeys} \cup {LinkLabel, "unknown"}) \ {NoText}

WordsOf(row) == {Lower(row.userAgent[i]) : i \in 1..Len(row.userAgent)}

\* The device bucket the claim gives a session.
ClaimedDevice(row) ==
    CASE row.deviceType # NoText -> Lower(row.deviceType)
      [] row.deviceType = NoText /\ row.userAgent = NoWords -> "unknown"
      [] row.deviceType = NoText /\ row.userAgent # NoWords
         /\ WordsOf(row) \cap {"ipad", "tablet"} # {} -> "tablet"
      [] row.deviceType = NoText /\ row.userAgent # NoWords
         /\ WordsOf(row) \cap {"ipad", "tablet"} = {}
         /\ WordsOf(row) \cap {"mobile", "android", "iphone"} # {} -> "mobile"
      [] OTHER -> "desktop"

\* C24: in a devices response every session started in the range is counted
\* in exactly one row, the row of its device: the lower-cased deviceType
\* when it has one; else unknown without a user agent; else tablet for a
\* user agent with ipad or tablet in it, also when it has mobile in it; else
\* mobile for one with mobile, android or iphone in it; else desktop.
C24_DeviceBuckets ==
    (req.pc = "responded" /\ req.endpoint = "devices" /\ req.status = 200) =>
        LET rows == req.rows
            started == {x \in DOMAIN sessions : InRange(req.range, sessions[x].startTime)}
        IN /\ \A x \in started :
                 Cardinality({i \in 1..Len(rows) : rows[i].device = ClaimedDevice(sessions[x])}) = 1
           /\ \A i \in 1..Len(rows) :
                 /\ rows[i].sessions =
                       Cardinality({x \in started : ClaimedDevice(sessions[x]) = rows[i].device})
                 /\ rows[i].sessions >= 1
           /\ \A x \in started :
                 /\ (sessions[x].deviceType = NoText
                     /\ sessions[x].userAgent = <<"Mozilla", "iPhone", "Mobile">>) =>
                        \E i \in 1..Len(rows) : rows[i].device = "mobile"
                 /\ (sessions[x].deviceType = NoText /\ sessions[x].userAgent = NoWords) =>
                        \E i \in 1..Len(rows) : rows[i].device = "unknown"
                 /\ (sessions[x].deviceType = NoText
                     /\ sessions[x].userAgent = <<"Mozilla", "iPad", "Mobile">>) =>
                        \E i \in 1..Len(rows) : rows[i].device = "tablet"
                 /\ sessions[x].deviceType = "Mobile" =>
                        \E i \in 1..Len(rows) : rows[i].device = "mobile"

\* C24 witness: an iPad whose user agent has Mobile in it and nothing else
\* in the tablet row, a session with deviceType "Mobile" and a desktop user
\* agent in the mobile row.
C24_Witness ==
    /\ req.pc = "responded" /\ req.endpoint = "devices" /\ req.status = 200
    /\ Len(req.rows) = 2
    /\ \E i, j \in 1..2 :
          /\ req.rows[i] = [device |-> "tablet", sessions |-> 1]
          /\ req.rows[j] = [device |-> "mobile", sessions |-> 1]
    /\ \E x, y \in DOMAIN sessions :
          /\ sessions[x].deviceType = NoText /\ sessions[x].userAgent = <<"Mozilla", "iPad", "Mobile">>
          /\ sessions[y].deviceType = "Mobile" /\ sessions[y].userAgent = <<"Mozilla", "Windows">>
====
